---- MODULE Spec2Model ----
(***************************************************************************)
(* Binary codec of the WebAssembly type forms (src/elements/types.rs) and  *)
(* the fluent value-type builders (src/builder/misc.rs).                   *)
(*                                                                         *)
(* A byte is an integer 0..255, a stream a sequence of bytes, and a reader *)
(* a stream with the number of bytes already read from it.  Every decode   *)
(* operator returns a result record: ok, the value or the error, and the   *)
(* reader's position when the call returned.                               *)
(***************************************************************************)
EXTENDS Integers, Sequences, FiniteSets, TLC

VARIABLES kind, value, written, stream, phase, result, out,
          builder, value_types, calls, invocations, received

codecVars == <<kind, value, written, stream, phase, result, out>>
builderVars == <<builder, value_types, calls, invocations, received>>
vars == <<kind, value, written, stream, phase, result, out,
          builder, value_types, calls, invocations, received>>

\* ------------------------------------------------------------ bounds
\* Longest list of parameters / fields in a value that is serialized.
MaxParams == 2
\* Longest byte stream handed to a decoder as raw input.
MaxLen == 3
\* Most selection calls chained on one ValueTypesBuilder.
MaxSelections == 4

\* ------------------------------------------------------------ tag constants
I32TYPE == -1
I64TYPE == -2
F32TYPE == -3
F64TYPE == -4
V128TYPE == -5
ANYFUNCTYPE == -16
ANYREFTYPE == -17
REFTYPE == -18
\* Mutant: the packed-i8 tag typed as the indexed-reference tag.
PACKEDI8TYPE_clash == REFTYPE
PACKEDI8TYPE == -24
PACKEDI16TYPE == -25
FUNCTIONTYPE == -32
STRUCTTYPE == -33
ARRAYTYPE == -34
NORESULTTYPE == -64

\* ------------------------------------------------------------ results
Ok(v, p) == [ok |-> TRUE, val |-> v, err |-> <<"NoError">>, pos |-> p]
Err(e, p) == [ok |-> FALSE, val |-> <<"NoValue">>, err |-> e, pos |-> p]

None == <<"None">>
Some(v) == <<"Some", v>>
IsSome(o) == o[1] = "Some"
\* Option::or
OptionOr(a, b) == IF IsSome(a) THEN a ELSE b
\* The `?` operator: a failed step is returned as it is, a good one goes on.
Try(r, Continue(_)) == IF r.ok THEN Continue(r) ELSE r

\* ------------------------------------------------------------ primitives
\* io::Read::read of one byte: a short read fails and the reader stays put.
ReadByte(bytes, pos) ==
    IF pos >= Len(bytes) THEN Err(<<"UnexpectedEof">>, pos)
    ELSE Ok(bytes[pos + 1], pos + 1)

\* VarInt7: one byte, the continuation bit refused, bit 6 the sign.
VarInt7_deserialize(bytes, pos) ==
    Try(ReadByte(bytes, pos), LAMBDA r :
        IF r.val >= 128 THEN Err(<<"InvalidVarInt7", r.val>>, r.pos)
        ELSE IF r.val >= 64 THEN Ok(r.val - 128, r.pos)
        ELSE Ok(r.val, r.pos))

VarInt7_serialize(v) ==
    IF v < 0
    THEN LET low == (v + 256) % 128 IN
         <<IF low >= 64 THEN low ELSE low + 64>>
    ELSE <<v>>

\* VarUint1: one byte, 0 or 1.
VarUint1_deserialize(bytes, pos) ==
    Try(ReadByte(bytes, pos), LAMBDA r :
        IF r.val = 0 THEN Ok(FALSE, r.pos)
        ELSE IF r.val = 1 THEN Ok(TRUE, r.pos)
        ELSE Err(<<"InvalidVarUint1", r.val>>, r.pos))

VarUint1_serialize(b) == <<IF b THEN 1 ELSE 0>>

RECURSIVE Pow2(_)
Pow2(n) == IF n = 0 THEN 1 ELSE 2 * Pow2(n - 1)

\* VarUint32: unsigned LEB128, seven bits a byte, least significant first.
\* The groups occupy disjoint bits, so the code's `res |= group << shift` is a
\* sum; a fifth byte that would carry bits beyond the 32nd is refused, so no
\* bit is ever shifted out.  (The index samples and input streams stay below 2^31.)
RECURSIVE VarUint32_read(_, _, _, _)
VarUint32_read(bytes, pos, res, shift) ==
    IF shift > 31 THEN Err(<<"InvalidVarUint32">>, pos)
    ELSE Try(ReadByte(bytes, pos), LAMBDA r :
             IF r.val < 128
             THEN IF shift + 7 >= 32 /\ r.val >= 16
                  THEN Err(<<"InvalidVarInt32">>, r.pos)
                  ELSE Ok(res + (r.val % 128) * Pow2(shift), r.pos)
             ELSE VarUint32_read(bytes, r.pos, res + (r.val % 128) * Pow2(shift),
                                 shift + 7))

VarUint32_deserialize(bytes, pos) == VarUint32_read(bytes, pos, 0, 0)

RECURSIVE VarUint32_serialize(_)
VarUint32_serialize(v) ==
    IF v < 128 THEN <<v>>
    ELSE <<(v % 128) + 128>> \o VarUint32_serialize(v \div 128)

\* ------------------------------------------------------------ NumType
NumType_from_bits(x) ==
    IF x = I32TYPE THEN Some("I32")
    ELSE IF x = I64TYPE THEN Some("I64")
    ELSE IF x = F32TYPE THEN Some("F32")
    ELSE IF x = F64TYPE THEN Some("F64")
    ELSE None

NumType_to_bits(n) ==
    CASE n = "I32" -> I32TYPE
      [] n = "I64" -> I64TYPE
      [] n = "F32" -> F32TYPE
      [] n = "F64" -> F64TYPE

\* ------------------------------------------------------------ RefType
AnyRef == <<"AnyRef">>
AnyFunc == <<"AnyFunc">>
Ref(i) == <<"Ref", i>>

RefType_from_bits(x) ==
    IF x = ANYFUNCTYPE THEN Some(AnyFunc)
    ELSE IF x = ANYREFTYPE THEN Some(AnyRef)
    ELSE IF x = REFTYPE THEN Some(Ref(0))
    ELSE None

RefType_to_bits(r) ==
    CASE r[1] = "AnyFunc" -> ANYFUNCTYPE
      [] r[1] = "AnyRef" -> ANYREFTYPE
      [] r[1] = "Ref" -> REFTYPE

\* Mutant: read_rest that leaves the placeholder index and reads nothing.
RefType_read_rest_skipped(r, bytes, pos) == Ok(r, pos)

\* Returns the item as read_rest leaves it.
RefType_read_rest(r, bytes, pos) ==
    IF r[1] = "Ref"
    THEN Try(VarUint32_deserialize(bytes, pos), LAMBDA i : Ok(Ref(i.val), i.pos))
    ELSE Ok(r, pos)

\* Mutant: write_rest that writes no index.
RefType_write_rest_none(r) == <<>>

RefType_write_rest(r) ==
    IF r[1] = "Ref" THEN VarUint32_serialize(r[2]) ELSE <<>>

\* from_bits(val).ok_or(UnknownValueType(val))?, then read_rest on the item
RefType_item(item, val, bytes) ==
    IF ~IsSome(item) THEN Err(<<"UnknownValueType", val.val>>, val.pos)
    ELSE RefType_read_rest(item[2], bytes, val.pos)

RefType_deserialize(bytes, pos) ==
    Try(VarInt7_deserialize(bytes, pos), LAMBDA val :
        RefType_item(RefType_from_bits(val.val), val, bytes))

RefType_serialize(r) ==
    VarInt7_serialize(RefType_to_bits(r)) \o RefType_write_rest(r)

\* ------------------------------------------------------------ ValueType
Num(n) == <<"Num", n>>
RefV(r) == <<"Ref", r>>
V128 == <<"V128">>

OptionMapNum(o) == IF IsSome(o) THEN Some(Num(o[2])) ELSE None
OptionMapRef(o) == IF IsSome(o) THEN Some(RefV(o[2])) ELSE None

ValueType_from_bits(x) ==
    OptionOr(OptionOr(IF x = V128TYPE THEN Some(V128) ELSE None,
                      OptionMapNum(NumType_from_bits(x))),
             OptionMapRef(RefType_from_bits(x)))

ValueType_to_bits(v) ==
    CASE v[1] = "V128" -> V128TYPE
      [] v[1] = "Num" -> NumType_to_bits(v[2])
      [] v[1] = "Ref" -> RefType_to_bits(v[2])

ValueType_read_rest(v, bytes, pos) ==
    IF v[1] = "Ref"
    THEN Try(RefType_read_rest(v[2], bytes, pos), LAMBDA r : Ok(RefV(r.val), r.pos))
    ELSE Ok(v, pos)

ValueType_write_rest(v) ==
    IF v[1] = "Ref" THEN RefType_write_rest(v[2]) ELSE <<>>

\* from_bits(val).ok_or(UnknownValueType(val))?, then read_rest on the item
ValueType_item(item, val, bytes) ==
    IF ~IsSome(item) THEN Err(<<"UnknownValueType", val.val>>, val.pos)
    ELSE ValueType_read_rest(item[2], bytes, val.pos)

ValueType_deserialize(bytes, pos) ==
    Try(VarInt7_deserialize(bytes, pos), LAMBDA val :
        ValueType_item(ValueType_from_bits(val.val), val, bytes))

ValueType_serialize(v) ==
    VarInt7_serialize(ValueType_to_bits(v)) \o ValueType_write_rest(v)

\* ------------------------------------------------------------ BlockType
BlockValue(v) == <<"Value", v>>
NoResult == <<"NoResult">>

\* Option::map(BlockType::Value)
OptionMapBlockValue(o) == IF IsSome(o) THEN Some(BlockValue(o[2])) ELSE None
\* Option::ok_or(UnknownValueType(val)): the reader is where the tag read left it.
OkOrUnknown(item, val) ==
    IF IsSome(item) THEN Ok(item[2], val.pos)
    ELSE Err(<<"UnknownValueType", val.val>>, val.pos)

BlockType_deserialize(bytes, pos) ==
    Try(VarInt7_deserialize(bytes, pos), LAMBDA val :
        OkOrUnknown(OptionOr(IF val.val = NORESULTTYPE THEN Some(NoResult) ELSE None,
                             OptionMapBlockValue(ValueType_from_bits(val.val))),
                    val))

BlockType_serialize(b) ==
    VarInt7_serialize(IF b[1] = "NoResult" THEN NORESULTTYPE
                      ELSE ValueType_to_bits(b[2]))

\* ------------------------------------------------------------ StorageType
StorageValue(v) == <<"Value", v>>
PackedI8 == <<"PackedI8">>
PackedI16 == <<"PackedI16">>

\* The arm `_ => match ValueType::from_bits(val)`
StorageType_value(item, val, bytes) ==
    IF IsSome(item)
    THEN Try(ValueType_read_rest(item[2], bytes, val.pos), LAMBDA rest :
             Ok(StorageValue(rest.val), rest.pos))
    ELSE Err(<<"UnknownValueType", val.val>>, val.pos)

StorageType_deserialize(bytes, pos) ==
    Try(VarInt7_deserialize(bytes, pos), LAMBDA val :
        IF val.val = PACKEDI8TYPE THEN Ok(PackedI8, val.pos)
        ELSE IF val.val = PACKEDI16TYPE THEN Ok(PackedI16, val.pos)
        ELSE StorageType_value(ValueType_from_bits(val.val), val, bytes))

\* Mutant: the Value arm without its write_rest.
StorageType_serialize_no_rest(s) ==
    CASE s[1] = "PackedI8" -> VarInt7_serialize(PACKEDI8TYPE)
      [] s[1] = "PackedI16" -> VarInt7_serialize(PACKEDI16TYPE)
      [] s[1] = "Value" -> VarInt7_serialize(ValueType_to_bits(s[2]))

StorageType_serialize(s) ==
    CASE s[1] = "PackedI8" -> VarInt7_serialize(PACKEDI8TYPE)
      [] s[1] = "PackedI16" -> VarInt7_serialize(PACKEDI16TYPE)
      [] s[1] = "Value" ->
            VarInt7_serialize(ValueType_to_bits(s[2])) \o ValueType_write_rest(s[2])

\* ------------------------------------------------------------ FieldType
FieldType_deserialize(bytes, pos) ==
    Try(VarUint1_deserialize(bytes, pos), LAMBDA mutable :
        Try(StorageType_deserialize(bytes, mutable.pos), LAMBDA elem :
            Ok([elem |-> elem.val, mutable |-> mutable.val], elem.pos)))

FieldType_serialize(f) ==
    VarUint1_serialize(f.mutable) \o StorageType_serialize(f.elem)

\* ------------------------------------------------------------ counted lists
ItemDeserialize(item, bytes, pos) ==
    IF item = "ValueType" THEN ValueType_deserialize(bytes, pos)
    ELSE FieldType_deserialize(bytes, pos)

ItemSerialize(item, v) ==
    IF item = "ValueType" THEN ValueType_serialize(v) ELSE FieldType_serialize(v)

\* The loop of CountedList::deserialize: count items, the first failure returned.
RECURSIVE CountedList_items(_, _, _, _, _)
CountedList_items(item, bytes, pos, count, acc) ==
    IF count = 0 THEN Ok(acc, pos)
    ELSE Try(ItemDeserialize(item, bytes, pos), LAMBDA r :
             CountedList_items(item, bytes, r.pos, count - 1, Append(acc, r.val)))

CountedList_deserialize(item, bytes, pos) ==
    Try(VarUint32_deserialize(bytes, pos), LAMBDA count :
        CountedList_items(item, bytes, count.pos, count.val, <<>>))

RECURSIVE SerializeAll(_, _)
SerializeAll(item, data) ==
    IF data = <<>> THEN <<>>
    ELSE ItemSerialize(item, Head(data)) \o SerializeAll(item, Tail(data))

CountedListWriter_serialize(item, data) ==
    VarUint32_serialize(Len(data)) \o SerializeAll(item, data)

\* ------------------------------------------------------------ FunctionType
ArityMessage == "Return types length should be 0 or 1"

\* Mutant: every non-zero count read as "one return type".
FunctionType_deserialize_lenient(bytes, pos) ==
    Try(CountedList_deserialize("ValueType", bytes, pos), LAMBDA params :
        Try(VarUint32_deserialize(bytes, params.pos), LAMBDA return_types :
            IF return_types.val # 0
            THEN Try(ValueType_deserialize(bytes, return_types.pos), LAMBDA rt :
                     Ok([params |-> params.val, return_type |-> Some(rt.val)], rt.pos))
            ELSE Ok([params |-> params.val, return_type |-> None], return_types.pos)))

FunctionType_deserialize(bytes, pos) ==
    Try(CountedList_deserialize("ValueType", bytes, pos), LAMBDA params :
        Try(VarUint32_deserialize(bytes, params.pos), LAMBDA return_types :
            IF return_types.val = 1
            THEN Try(ValueType_deserialize(bytes, return_types.pos), LAMBDA rt :
                     Ok([params |-> params.val, return_type |-> Some(rt.val)], rt.pos))
            ELSE IF return_types.val = 0
            THEN Ok([params |-> params.val, return_type |-> None], return_types.pos)
            ELSE Err(<<"Other", ArityMessage>>, return_types.pos)))

FunctionType_serialize(f) ==
    CountedListWriter_serialize("ValueType", f.params)
        \o (IF IsSome(f.return_type)
            THEN VarUint1_serialize(TRUE) \o ValueType_serialize(f.return_type[2])
            ELSE VarUint1_serialize(FALSE))

\* ------------------------------------------------------------ StructType, ArrayType
\* Mutant: a failed field list replaced by the empty struct.
StructType_deserialize_default(bytes, pos) ==
    LET fields == CountedList_deserialize("FieldType", bytes, pos) IN
    IF ~fields.ok THEN Ok([fields |-> <<>>], fields.pos)
    ELSE Ok([fields |-> fields.val], fields.pos)

StructType_deserialize(bytes, pos) ==
    Try(CountedList_deserialize("FieldType", bytes, pos), LAMBDA fields :
        Ok([fields |-> fields.val], fields.pos))

StructType_serialize(s) == CountedListWriter_serialize("FieldType", s.fields)

ArrayType_deserialize(bytes, pos) ==
    Try(FieldType_deserialize(bytes, pos), LAMBDA elem :
        Ok([elem |-> elem.val], elem.pos))

ArrayType_serialize(a) == FieldType_serialize(a.elem)

\* ------------------------------------------------------------ Type
TypeFunction(f) == <<"Function", f>>
TypeStruct(s) == <<"Struct", s>>
TypeArray(a) == <<"Array", a>>

\* Result::map(Into::into)
MapInto(r, variant) == IF r.ok THEN Ok(<<variant, r.val>>, r.pos) ELSE r

\* Mutant: the error carries the raw byte instead of the sign-extended tag.
Type_deserialize_raw_byte(bytes, pos) ==
    Try(VarInt7_deserialize(bytes, pos), LAMBDA val :
        IF val.val = FUNCTIONTYPE
        THEN MapInto(FunctionType_deserialize(bytes, val.pos), "Function")
        ELSE IF val.val = STRUCTTYPE
        THEN MapInto(StructType_deserialize(bytes, val.pos), "Struct")
        ELSE IF val.val = ARRAYTYPE
        THEN MapInto(ArrayType_deserialize(bytes, val.pos), "Array")
        ELSE Err(<<"UnknownValueType", bytes[pos + 1]>>, val.pos))

Type_deserialize(bytes, pos) ==
    Try(VarInt7_deserialize(bytes, pos), LAMBDA val :
        IF val.val = FUNCTIONTYPE
        THEN MapInto(FunctionType_deserialize(bytes, val.pos), "Function")
        ELSE IF val.val = STRUCTTYPE
        THEN MapInto(StructType_deserialize(bytes, val.pos), "Struct")
        ELSE IF val.val = ARRAYTYPE
        THEN MapInto(ArrayType_deserialize(bytes, val.pos), "Array")
        ELSE Err(<<"UnknownValueType", val.val>>, val.pos))

Type_serialize(t) ==
    CASE t[1] = "Function" -> VarInt7_serialize(FUNCTIONTYPE) \o FunctionType_serialize(t[2])
      [] t[1] = "Struct" -> VarInt7_serialize(STRUCTTYPE) \o StructType_serialize(t[2])
      [] t[1] = "Array" -> VarInt7_serialize(ARRAYTYPE) \o ArrayType_serialize(t[2])

\* ------------------------------------------------------------ trait dispatch
Kinds == {"RefType", "ValueType", "BlockType", "StorageType", "FieldType",
          "FunctionType", "StructType", "ArrayType", "Type"}

Deserialize(k, bytes, pos) ==
    CASE k = "RefType" -> RefType_deserialize(bytes, pos)
      [] k = "ValueType" -> ValueType_deserialize(bytes, pos)
      [] k = "BlockType" -> BlockType_deserialize(bytes, pos)
      [] k = "StorageType" -> StorageType_deserialize(bytes, pos)
      [] k = "FieldType" -> FieldType_deserialize(bytes, pos)
      [] k = "FunctionType" -> FunctionType_deserialize(bytes, pos)
      [] k = "StructType" -> StructType_deserialize(bytes, pos)
      [] k = "ArrayType" -> ArrayType_deserialize(bytes, pos)
      [] k = "Type" -> Type_deserialize(bytes, pos)

Serialize(k, v) ==
    CASE k = "RefType" -> RefType_serialize(v)
      [] k = "ValueType" -> ValueType_serialize(v)
      [] k = "BlockType" -> BlockType_serialize(v)
      [] k = "StorageType" -> StorageType_serialize(v)
      [] k = "FieldType" -> FieldType_serialize(v)
      [] k = "FunctionType" -> FunctionType_serialize(v)
      [] k = "StructType" -> StructType_serialize(v)
      [] k = "ArrayType" -> ArrayType_serialize(v)
      [] k = "Type" -> Type_serialize(v)

\* ------------------------------------------------------------ value types builder
\* NumType::X.into() pushed on value_types
ValueTypesBuilder_i32(types) == Append(types, Num("I32"))
ValueTypesBuilder_i64(types) == Append(types, Num("I64"))
\* Mutant: f32 pasted from f64.
ValueTypesBuilder_f32_pasted(types) == Append(types, Num("F64"))
ValueTypesBuilder_f32(types) == Append(types, Num("F32"))
ValueTypesBuilder_f64(types) == Append(types, Num("F64"))

\* ------------------------------------------------------------ inputs
NumTypes == {"I32", "I64", "F32", "F64"}
IndexSamples == {0, 7, 128, 2097152}
RefTypes == {AnyRef, AnyFunc} \cup {Ref(i) : i \in IndexSamples}
ValueTypes == {V128} \cup {Num(n) : n \in NumTypes} \cup {RefV(r) : r \in RefTypes}
BlockTypes == {NoResult} \cup {BlockValue(v) : v \in ValueTypes}
StorageTypes == {PackedI8, PackedI16} \cup {StorageValue(v) : v \in ValueTypes}
FieldTypes == [elem : StorageTypes, mutable : BOOLEAN]

SeqsUpTo(S, n) == UNION {[1..k -> S] : k \in 0..n}

ParamSamples == {Num("I32"), V128, RefV(AnyFunc), RefV(Ref(128))}
FieldSamples == {[elem |-> PackedI8, mutable |-> TRUE],
                 [elem |-> StorageValue(RefV(Ref(7))), mutable |-> FALSE],
                 [elem |-> StorageValue(Num("I64")), mutable |-> TRUE]}
OptionalValueTypes == {None} \cup {Some(v) : v \in ValueTypes}
FunctionTypes == [params : SeqsUpTo(ParamSamples, MaxParams),
                  return_type : OptionalValueTypes]
StructTypes == [fields : SeqsUpTo(FieldSamples, MaxParams)]
ArrayTypes == [elem : FieldTypes]
Types == {TypeFunction(f) : f \in FunctionTypes}
             \cup {TypeStruct(s) : s \in StructTypes}
             \cup {TypeArray(a) : a \in ArrayTypes}

Values(k) ==
    CASE k = "RefType" -> RefTypes
      [] k = "ValueType" -> ValueTypes
      [] k = "BlockType" -> BlockTypes
      [] k = "StorageType" -> StorageTypes
      [] k = "FieldType" -> FieldTypes
      [] k = "FunctionType" -> FunctionTypes
      [] k = "StructType" -> StructTypes
      [] k = "ArrayType" -> ArrayTypes
      [] k = "Type" -> Types

\* What may follow a serialized value in the stream it is read back from.
Tails == {<<>>, <<1>>}

\* The byte a tag is written as.
TagByte(t) == VarInt7_serialize(t)[1]

\* Raw input: every one-byte stream, and the streams of up to MaxLen bytes over
\* some tags, the small counts and a continuation byte.
InputBytes == {0, 1, 2, 128}
    \cup {TagByte(t) : t \in {I32TYPE, REFTYPE, PACKEDI8TYPE, FUNCTIONTYPE,
                              STRUCTTYPE, NORESULTTYPE}}
\* The bytes one byte of a serialized value is replaced by: a zero, a count of
\* two, a continuation byte, a tag no value type has, the tag that wants an index.
CorruptBytes == {0, 2, 128, TagByte(NORESULTTYPE), TagByte(REFTYPE)}
InputStreams == SeqsUpTo(InputBytes, MaxLen) \cup {<<b>> : b \in 0..255}

\* ------------------------------------------------------------ state machine
NotRun == [ok |-> FALSE, val |-> <<"NoValue">>, err |-> <<"NotRun">>, pos |-> 0]

Init ==
    /\ kind = "none"
    /\ value = <<"NoValue">>
    /\ written = 0
    /\ stream = <<>>
    /\ phase = "start"
    /\ result = NotRun
    /\ out = <<>>
    /\ builder = "none"
    /\ value_types = <<>>
    /\ calls = <<>>
    /\ invocations = 0
    /\ received = <<>>

\* v.serialize(&mut writer) into a fresh buffer; the buffer, followed by whatever
\* comes next in the section, is the stream a reader is then opened on.
SerializeValue ==
    /\ phase = "start"
    /\ \E k \in Kinds : \E v \in Values(k) : \E tail \in Tails :
          /\ kind' = k
          /\ value' = v
          /\ stream' = Serialize(k, v) \o tail
          /\ written' = Len(stream') - Len(tail)
    /\ phase' = "serialized"
    /\ UNCHANGED <<result, out>>
    /\ UNCHANGED builderVars

\* A reader opened on raw bytes.
Feed ==
    /\ phase = "start"
    /\ \E k \in Kinds : \E bytes \in InputStreams :
          /\ kind' = k
          /\ stream' = bytes
    /\ phase' = "input"
    /\ UNCHANGED <<value, written, result, out>>
    /\ UNCHANGED builderVars

\* A reader opened on a serialized value cut short: a short read somewhere inside.
Truncate ==
    /\ phase = "serialized"
    /\ written = Len(stream)
    /\ \E n \in 0..(Len(stream) - 1) : stream' = SubSeq(stream, 1, n)
    /\ value' = <<"NoValue">>
    /\ written' = 0
    /\ phase' = "input"
    /\ UNCHANGED <<kind, result, out>>
    /\ UNCHANGED builderVars

\* A reader opened on a serialized value with one byte replaced.
Corrupt ==
    /\ phase = "serialized"
    /\ written = Len(stream)
    /\ \E i \in 1..Len(stream) : \E b \in CorruptBytes :
          /\ b # stream[i]
          /\ stream' = [stream EXCEPT ![i] = b]
    /\ value' = <<"NoValue">>
    /\ written' = 0
    /\ phase' = "input"
    /\ UNCHANGED <<kind, result, out>>
    /\ UNCHANGED builderVars

\* T::deserialize(&mut reader)
DeserializeStream ==
    /\ phase \in {"serialized", "input"}
    /\ result' = Deserialize(kind, stream, 0)
    /\ phase' = IF phase = "serialized" THEN "read_back" ELSE "decoded"
    /\ UNCHANGED <<kind, value, written, stream, out>>
    /\ UNCHANGED builderVars

\* The decoded value serialized again.
Reserialize ==
    /\ phase \in {"read_back", "decoded"}
    /\ result.ok
    /\ out' = Serialize(kind, result.val)
    /\ phase' = IF phase = "read_back" THEN "rewritten_value" ELSE "rewritten"
    /\ UNCHANGED <<kind, value, written, stream, result>>
    /\ UNCHANGED builderVars

Next == SerializeValue \/ Feed \/ Truncate \/ Corrupt \/ DeserializeStream \/ Reserialize

Spec == Init /\ [][Next]_vars

with_callback ==
    /\ builder = "none"
    /\ builder' = "live"
    /\ value_types' = <<>>
    /\ UNCHANGED <<calls, invocations, received>>
    /\ UNCHANGED codecVars

i32 ==
    /\ builder = "live"
    /\ Len(calls) < MaxSelections
    /\ value_types' = ValueTypesBuilder_i32(value_types)
    /\ calls' = Append(calls, "i32")
    /\ UNCHANGED <<builder, invocations, received>>
    /\ UNCHANGED codecVars

i64 ==
    /\ builder = "live"
    /\ Len(calls) < MaxSelections
    /\ value_types' = ValueTypesBuilder_i64(value_types)
    /\ calls' = Append(calls, "i64")
    /\ UNCHANGED <<builder, invocations, received>>
    /\ UNCHANGED codecVars

f32 ==
    /\ builder = "live"
    /\ Len(calls) < MaxSelections
    /\ value_types' = ValueTypesBuilder_f32(value_types)
    /\ calls' = Append(calls, "f32")
    /\ UNCHANGED <<builder, invocations, received>>
    /\ UNCHANGED codecVars

f64 ==
    /\ builder = "live"
    /\ Len(calls) < MaxSelections
    /\ value_types' = ValueTypesBuilder_f64(value_types)
    /\ calls' = Append(calls, "f64")
    /\ UNCHANGED <<builder, invocations, received>>
    /\ UNCHANGED codecVars

\* self.callback.invoke(self.value_types): the builder is consumed.
build ==
    /\ builder = "live"
    /\ invocations' = invocations + 1
    /\ received' = value_types
    /\ builder' = "consumed"
    /\ UNCHANGED <<value_types, calls>>
    /\ UNCHANGED codecVars

BuilderNext == with_callback \/ i32 \/ i64 \/ f32 \/ f64 \/ build

BuilderSpec == Init /\ [][BuilderNext]_vars

\* ------------------------------------------------------------ helpers of the properties
ReadBack == phase \in {"read_back", "rewritten_value"}
Decoded == phase \in {"decoded", "rewritten"}
AfterDeserialize == ReadBack \/ Decoded
\* The bytes serialize wrote, and the bytes the decode read.
WrittenBytes == SubSeq(stream, 1, written)
Consumed == SubSeq(stream, 1, result.pos)
\* The tag a stream starts with: the signed value of its first seven bits.
HasTag == stream # <<>> /\ stream[1] < 128
LeadingTag == IF stream[1] >= 64 THEN stream[1] - 128 ELSE stream[1]

\* The reference type inside a RefType, ValueType or StorageType value, if any.
RefInside(k, v) ==
    CASE k = "RefType" -> Some(v)
      [] k = "ValueType" -> IF v[1] = "Ref" THEN Some(v[2]) ELSE None
      [] k = "StorageType" ->
            IF v[1] = "Value" /\ v[2][1] = "Ref" THEN Some(v[2][2]) ELSE None
\* The value of kind k that holds reference type r.
WrapRef(k, r) ==
    CASE k = "RefType" -> r
      [] k = "ValueType" -> RefV(r)
      [] k = "StorageType" -> StorageValue(RefV(r))
      [] k = "BlockType" -> BlockValue(RefV(r))

\* ------------------------------------------------------------ C1
\* C1: for every value v of RefType, ValueType, StorageType, FieldType,
\* FunctionType, StructType, ArrayType and Type, deserializing the bytes that
\* serialize(v) wrote succeeds, returns a value equal to v, and consumes exactly
\* the bytes written (whatever follows them in the stream).
RoundTrip ==
    (ReadBack /\ kind # "BlockType")
        => /\ result.ok
           /\ result.val = value
           /\ result.pos = written

RoundTripWitness ==
    /\ phase = "read_back"
    /\ kind = "Type"
    /\ stream # WrittenBytes
    /\ value = TypeFunction([params |-> <<RefV(Ref(128)), Num("I32")>>,
                             return_type |-> Some(RefV(Ref(7)))])
    /\ result.ok
    /\ result.val = value

\* ------------------------------------------------------------ C2
\* C2: for every BlockType value v, NoResult and Value(t) for every ValueType t,
\* Value(Ref(Ref(i))) for every index i included, BlockType::deserialize of the
\* bytes BlockType::serialize(v) wrote returns a value equal to v.
BlockRoundTrip ==
    (ReadBack /\ kind = "BlockType") => (result.ok /\ result.val = value)

\* ------------------------------------------------------------ C6
\* C6: serializing RefType::Ref(i), directly or inside ValueType::Ref or
\* StorageType::Value, writes the REFTYPE tag byte and right after it the
\* unsigned-32 varint of i, and decoding reads that varint back as the index;
\* every other RefType / ValueType / StorageType variant writes and reads exactly
\* one tag byte.
IndexedRefWritten ==
    (phase = "serialized" \/ ReadBack) /\ kind \in {"RefType", "ValueType", "StorageType"}
        => LET r == RefInside(kind, value) IN
           IF IsSome(r) /\ r[2][1] = "Ref"
           THEN /\ WrittenBytes = <<TagByte(REFTYPE)>> \o VarUint32_serialize(r[2][2])
                /\ ReadBack => /\ result.ok
                               /\ result.val = WrapRef(kind, Ref(r[2][2]))
                               /\ result.pos = written
           ELSE /\ written = 1
                /\ ReadBack => (result.ok /\ result.pos = 1)

IndexedRefRead ==
    (Decoded /\ kind \in {"RefType", "ValueType", "StorageType"} /\ result.ok)
        => IF LeadingTag = REFTYPE
           THEN LET index == VarUint32_deserialize(stream, 1) IN
                /\ index.ok
                /\ result.val = WrapRef(kind, Ref(index.val))
                /\ result.pos = index.pos
           ELSE result.pos = 1

\* C6: both directions, the bytes written for a reference and the bytes read for one.
IndexedRef == IndexedRefWritten /\ IndexedRefRead

IndexedRefWitness ==
    /\ phase = "read_back"
    /\ kind = "StorageType"
    /\ value = StorageValue(RefV(Ref(7)))
    /\ WrittenBytes = <<TagByte(REFTYPE), 7>>
    /\ result.val = value

\* ------------------------------------------------------------ C8
\* C8: BlockType::deserialize, on a recognized ValueType tag, applies ValueType's
\* trailing-field logic: for the REFTYPE tag it reads the unsigned-32 varint that
\* follows and returns BlockType::Value(Ref(Ref(index))), consuming the tag and
\* the index bytes; BlockType::serialize writes the index after the tag.
BlockTrailingField ==
    /\ (Decoded /\ kind = "BlockType" /\ HasTag /\ LeadingTag = REFTYPE)
          => LET index == VarUint32_deserialize(stream, 1) IN
             index.ok => /\ result.ok
                         /\ result.val = WrapRef("BlockType", Ref(index.val))
                         /\ result.pos = index.pos
    /\ (phase = "serialized" /\ kind = "BlockType"
            /\ value[1] = "Value" /\ value[2][1] = "Ref" /\ value[2][2][1] = "Ref")
          => WrittenBytes = <<TagByte(REFTYPE)>> \o VarUint32_serialize(value[2][2][2])

\* ------------------------------------------------------------ C3
\* C3: for every byte sequence on which a deserialize succeeds, serializing the
\* decoded value writes exactly the bytes the decode consumed.
ReencodeConsumed ==
    phase \in {"rewritten", "rewritten_value"} => out = Consumed

\* An unsigned-32 varint is padded when it is longer than one byte and ends in a
\* zero group.  Tags and flags are single bytes below 128, so in the bytes a
\* successful decode consumed a byte of 128 or more is always a continuation
\* byte of a varint.
Padded(bytes) ==
    \E i \in 1..(Len(bytes) - 1) : bytes[i] >= 128 /\ bytes[i + 1] = 0

\* C3 (amended): ... succeeds, and in which every unsigned-32 varint consumed
\* (list counts, the return-type count, reference indices) is in its shortest
\* form, serializing the decoded value writes exactly the bytes consumed.
ReencodeShortest ==
    (phase \in {"rewritten", "rewritten_value"} /\ ~Padded(Consumed)) => out = Consumed

ReencodeWitness ==
    /\ phase = "rewritten"
    /\ kind = "ValueType"
    /\ stream = <<TagByte(REFTYPE), 128, 1>>
    /\ out = stream

\* ------------------------------------------------------------ C4
RecognizedTags(k) ==
    CASE k = "RefType" -> {ANYFUNCTYPE, ANYREFTYPE, REFTYPE}
      [] k = "ValueType" -> {V128TYPE, I32TYPE, I64TYPE, F32TYPE, F64TYPE,
                             ANYFUNCTYPE, ANYREFTYPE, REFTYPE}
      [] k = "StorageType" -> {PACKEDI8TYPE, PACKEDI16TYPE, V128TYPE, I32TYPE, I64TYPE,
                               F32TYPE, F64TYPE, ANYFUNCTYPE, ANYREFTYPE, REFTYPE}
      [] k = "BlockType" -> {NORESULTTYPE, V128TYPE, I32TYPE, I64TYPE, F32TYPE, F64TYPE,
                             ANYFUNCTYPE, ANYREFTYPE, REFTYPE}
      [] k = "Type" -> {FUNCTIONTYPE, STRUCTTYPE, ARRAYTYPE}

TaggedKinds == {"RefType", "ValueType", "StorageType", "BlockType", "Type"}

\* C4: for RefType, ValueType, StorageType, BlockType and Type, deserializing a
\* stream whose leading tag t is not one of the type's recognized constants fails
\* with UnknownValueType(t), t the tag value read, and reads nothing after the
\* tag byte.
TagRejection ==
    (AfterDeserialize /\ kind \in TaggedKinds /\ HasTag
            /\ LeadingTag \notin RecognizedTags(kind))
        => /\ ~result.ok
           /\ result.err = <<"UnknownValueType", LeadingTag>>
           /\ result.pos = 1

TagRejectionWitness ==
    /\ phase = "decoded"
    /\ kind = "StorageType"
    /\ stream = <<TagByte(NORESULTTYPE), 1>>
    /\ result.err = <<"UnknownValueType", NORESULTTYPE>>

\* ------------------------------------------------------------ C5
\* C5: FunctionType::deserialize, having read the parameter list and the
\* return-type count c: for c = 0 returns return_type = None and reads no value
\* type; for c = 1 reads exactly one ValueType and returns Some of it; for every
\* other c fails with Other("Return types length should be 0 or 1") and consumes
\* nothing after the count.
ReturnArity ==
    (AfterDeserialize /\ kind = "FunctionType")
        => LET params == CountedList_deserialize("ValueType", stream, 0)
               c == VarUint32_deserialize(stream, params.pos)
               rt == ValueType_deserialize(stream, c.pos)
           IN  (params.ok /\ c.ok) =>
                 /\ c.val = 0 => /\ result.ok
                                 /\ result.val.params = params.val
                                 /\ result.val.return_type = None
                                 /\ result.pos = c.pos
                 /\ (c.val = 1 /\ rt.ok) => /\ result.ok
                                            /\ result.val.params = params.val
                                            /\ result.val.return_type = Some(rt.val)
                                            /\ result.pos = rt.pos
                 /\ c.val \notin {0, 1} => /\ ~result.ok
                                           /\ result.err = <<"Other", ArityMessage>>
                                           /\ result.pos = c.pos

ReturnArityWitness ==
    /\ phase = "decoded"
    /\ kind = "FunctionType"
    /\ stream = <<1, TagByte(I32TYPE), 2>>
    /\ ~result.ok
    /\ result.err[1] = "Other"
    /\ result.pos = 3

\* ------------------------------------------------------------ C9
Aggregates == {"Type", "FunctionType", "StructType", "ArrayType", "FieldType"}

\* The result of the n-th item (from 0) of a list that starts at pos, or the first
\* failure before it.
RECURSIVE ItemAt(_, _, _, _)
ItemAt(item, bytes, pos, n) ==
    LET r == ItemDeserialize(item, bytes, pos) IN
    IF n = 0 \/ ~r.ok THEN r ELSE ItemAt(item, bytes, r.pos, n - 1)

\* A list read at pos fails in its count or in one of its items: r is that failure.
ListFailureIs(item, bytes, pos, r) ==
    LET count == VarUint32_deserialize(bytes, pos) IN
    /\ ~count.ok => r = count
    /\ (count.ok /\ count.val > 0) =>
          LET last == ItemAt(item, bytes, count.pos, count.val - 1) IN
          ~last.ok => r = last

\* r, the result of decoding kind k at pos, is the failure of the first nested
\* decode that fails.
Propagates(k, bytes, pos, r) ==
    CASE k = "FieldType" ->
            LET mutable == VarUint1_deserialize(bytes, pos)
                elem == StorageType_deserialize(bytes, mutable.pos)
            IN  /\ ~mutable.ok => r = mutable
                /\ (mutable.ok /\ ~elem.ok) => r = elem
      [] k = "ArrayType" ->
            LET elem == FieldType_deserialize(bytes, pos) IN ~elem.ok => r = elem
      [] k = "StructType" -> ListFailureIs("FieldType", bytes, pos, r)
      [] k = "FunctionType" ->
            LET params == CountedList_deserialize("ValueType", bytes, pos)
                c == VarUint32_deserialize(bytes, params.pos)
                rt == ValueType_deserialize(bytes, c.pos)
            IN  /\ ListFailureIs("ValueType", bytes, pos, r)
                /\ (params.ok /\ ~c.ok) => r = c
                /\ (params.ok /\ c.ok /\ c.val = 1 /\ ~rt.ok) => r = rt
                /\ (params.ok /\ c.ok /\ c.val > 1) => r = Err(<<"Other", ArityMessage>>, c.pos)

NestedKind(tag) ==
    CASE tag = FUNCTIONTYPE -> "FunctionType"
      [] tag = STRUCTTYPE -> "StructType"
      [] tag = ARRAYTYPE -> "ArrayType"

\* C9: when a nested decode fails inside Type, FunctionType, StructType, ArrayType
\* or FieldType deserialize, the outermost call returns that same error
\* unchanged, returns no partially built value, and reads nothing after the
\* failing read (the bytes beyond it do not matter to the result).
ErrorPropagation ==
    (AfterDeserialize /\ kind \in Aggregates)
        => /\ kind # "Type" => Propagates(kind, stream, 0, result)
           /\ (kind = "Type" /\ HasTag /\ LeadingTag \in RecognizedTags("Type"))
                 => LET nested == Deserialize(NestedKind(LeadingTag), stream, 1) IN
                    /\ ~nested.ok => result = nested
                    /\ Propagates(NestedKind(LeadingTag), stream, 1, nested)
           /\ ~result.ok => /\ result.val = <<"NoValue">>
                            /\ result.pos <= Len(stream)
                            /\ Deserialize(kind, Consumed, 0) = result

\* A function type whose one parameter is an indexed reference with its index cut off.
ErrorPropagationWitness ==
    /\ phase = "decoded"
    /\ kind = "Type"
    /\ stream = <<TagByte(FUNCTIONTYPE), 1, TagByte(REFTYPE)>>
    /\ ~result.ok
    /\ result.err = <<"UnexpectedEof">>
    /\ result.pos = 3

\* ------------------------------------------------------------ C10
AllTags == <<I32TYPE, I64TYPE, F32TYPE, F64TYPE, V128TYPE, ANYFUNCTYPE, ANYREFTYPE,
             REFTYPE, PACKEDI8TYPE, PACKEDI16TYPE, FUNCTIONTYPE, STRUCTTYPE,
             ARRAYTYPE, NORESULTTYPE>>

\* The tables of one dispatch level that map tag x to a variant.
TablesMatching(level, x) ==
    CASE level = "ValueType" ->
            {t \in {"V128", "Num", "Ref"} :
                \/ t = "V128" /\ x = V128TYPE
                \/ t = "Num" /\ IsSome(NumType_from_bits(x))
                \/ t = "Ref" /\ IsSome(RefType_from_bits(x))}
      [] level = "StorageType" ->
            {t \in {"PackedI8", "PackedI16", "Value"} :
                \/ t = "PackedI8" /\ x = PACKEDI8TYPE
                \/ t = "PackedI16" /\ x = PACKEDI16TYPE
                \/ t = "Value" /\ IsSome(ValueType_from_bits(x))}
      [] level = "BlockType" ->
            {t \in {"NoResult", "Value"} :
                \/ t = "NoResult" /\ x = NORESULTTYPE
                \/ t = "Value" /\ IsSome(ValueType_from_bits(x))}

\* ValueType::from_bits with its three tables tried in the opposite order.
ValueTypeFromBitsReversed(x) ==
    OptionOr(OptionOr(OptionMapRef(RefType_from_bits(x)),
                      OptionMapNum(NumType_from_bits(x))),
             IF x = V128TYPE THEN Some(V128) ELSE None)

\* C10: the tag constants are pairwise distinct within and across dispatch
\* levels: no Type discriminant is a ValueType / StorageType / BlockType tag, the
\* packed and NoResult tags are no ValueType tag, the V128, NumType and RefType
\* tags are mutually disjoint; so every tag maps to at most one variant at each
\* level and what ValueType::from_bits, StorageType and BlockType decode return
\* does not depend on the order in which the tables are tried.
TagsDisjoint ==
    /\ \A i, j \in 1..Len(AllTags) : i # j => AllTags[i] # AllTags[j]
    /\ RecognizedTags("Type") \cap
          (RecognizedTags("ValueType") \cup RecognizedTags("StorageType")
              \cup RecognizedTags("BlockType")) = {}
    /\ (AfterDeserialize /\ HasTag) =>
          /\ \A level \in {"ValueType", "StorageType", "BlockType"} :
                Cardinality(TablesMatching(level, LeadingTag)) <= 1
          /\ ValueTypeFromBitsReversed(LeadingTag) = ValueType_from_bits(LeadingTag)
          /\ (kind \in {"ValueType", "StorageType", "BlockType"}) =>
                /\ result.ok => Cardinality(TablesMatching(kind, LeadingTag)) = 1
                /\ TablesMatching(kind, LeadingTag) = {}
                      => result.err = <<"UnknownValueType", LeadingTag>>

TagsDisjointWitness ==
    /\ phase = "decoded"
    /\ kind = "StorageType"
    /\ stream = <<TagByte(REFTYPE), 1>>
    /\ result.ok
    /\ result.val = StorageValue(RefV(Ref(1)))
    /\ TablesMatching("StorageType", REFTYPE) = {"Value"}
    /\ TablesMatching("ValueType", REFTYPE) = {"Ref"}

\* ------------------------------------------------------------ C7
Selected(call) ==
    CASE call = "i32" -> Num("I32")
      [] call = "i64" -> Num("I64")
      [] call = "f32" -> Num("F32")
      [] call = "f64" -> Num("F64")

\* C7: for any finite sequence of selection calls (i32, i64, f32, f64) on a
\* ValueTypesBuilder made by with_callback, followed by build: no selection call
\* invokes the continuation, build invokes it exactly once, and the argument it
\* gets is the sequence of the selected ValueType::Num values in call order (the
\* empty sequence for no selection).
BuilderContract ==
    /\ builder \in {"none", "live"} => invocations = 0
    /\ builder = "consumed" =>
          /\ invocations = 1
          /\ received = [i \in 1..Len(calls) |-> Selected(calls[i])]

BuilderContractWitness ==
    /\ builder = "consumed"
    /\ calls = <<"i32", "f64">>
    /\ received = <<Num("I32"), Num("F64")>>
    /\ invocations = 1

====
